---- MODULE Spec2Model ----
(***************************************************************************)
(* Terminal session pool (TerminalManager) and per-command execution       *)
(* (TerminalProcess) of recline.                                           *)
(*                                                                         *)
(* Text is a sequence of character codes (UTF-16 code units), so that the  *)
(* regular expressions of the source keep their character classes.         *)
(***************************************************************************)
EXTENDS Integers, Sequences, FiniteSets, TLC

(***************************************************************************)
(* Bounds of the model.                                                    *)
(***************************************************************************)
MaxChunks == 4
MaxOutput == 4
MaxTerminals == 2
MaxNow == 160000
Epoch == 100000
MaxHotOutput == 34
MaxLineOutput == 6

(***************************************************************************)
(* Program constants.                                                      *)
(***************************************************************************)
PROCESS_HOT_TIMEOUT_NORMAL == 2000
PROCESS_HOT_TIMEOUT_COMPILING == 15000
COMMAND_TIMEOUT == 30000

NL == 10
CR == 13

(***************************************************************************)
(* Strings.                                                                *)
(***************************************************************************)
\* JavaScript's white space (String.prototype.trim, \s).
WhiteSpace ==
    {9, 10, 11, 12, 13, 32, 160, 5760, 8232, 8233, 8239, 8287, 12288, 65279}
        \cup (8192..8202)

RECURSIVE TrimStart(_)
TrimStart(s) ==
    IF s # <<>> /\ Head(s) \in WhiteSpace THEN TrimStart(Tail(s)) ELSE s

RECURSIVE TrimEnd(_)
TrimEnd(s) ==
    IF s # <<>> /\ s[Len(s)] \in WhiteSpace
    THEN TrimEnd(SubSeq(s, 1, Len(s) - 1))
    ELSE s

Trim(s) == TrimEnd(TrimStart(s))

\* String.prototype.includes
Includes(s, m) ==
    \E i \in 1..(Len(s) - Len(m) + 1) : SubSeq(s, i, i + Len(m) - 1) = m

\* String.prototype.split("\n"): the pieces between the newlines.
RECURSIVE Split(_)
Split(s) ==
    IF \A i \in 1..Len(s) : s[i] # NL
    THEN <<s>>
    ELSE LET i == CHOOSE k \in 1..Len(s) :
                     s[k] = NL /\ \A j \in 1..(k - 1) : s[j] # NL
         IN <<SubSeq(s, 1, i - 1)>> \o Split(SubSeq(s, i + 1, Len(s)))

\* Array.prototype.join("\n")
RECURSIVE Join(_)
Join(lines) ==
    IF lines = <<>> THEN <<>>
    ELSE IF Len(lines) = 1 THEN lines[1]
    ELSE lines[1] \o <<NL>> \o Join(Tail(lines))

\* String.prototype.replace(/[class]/g, ""): the characters of a class go.
RECURSIVE RemoveAll(_, _)
RemoveAll(s, drop) ==
    IF s = <<>> THEN <<>>
    ELSE (IF Head(s) \in drop THEN <<>> ELSE <<Head(s)>>)
             \o RemoveAll(Tail(s), drop)

\* String.prototype.toLowerCase on the ASCII letters.
ToLowerCase(s) ==
    [i \in 1..Len(s) |-> IF s[i] \in 65..90 THEN s[i] + 32 ELSE s[i]]

\* The decimal digits of a natural number (template literal `${Date.now()}`).
RECURSIVE Digits(_)
Digits(n) ==
    IF n < 10 THEN <<48 + n>> ELSE Digits(n \div 10) \o <<48 + (n % 10)>>

(***************************************************************************)
(* Sanitizers.                                                             *)
(***************************************************************************)
\* regexes.NON_ASCII_CONTROL: [\x00-\x09\x0B-\x1F\x7F-\uFFFF]
NON_ASCII_CONTROL == (0..9) \cup (11..31) \cup (127..65535)

\* regexes.PROMPT_CHARS: [%$#>] before the white space that ends the text
PROMPT_CHARS == {37, 36, 35, 62}

\* replace(LINE_ENDINGS, "\n"): every \r\n becomes \n
RECURSIVE ReplaceLineEndings(_)
ReplaceLineEndings(s) ==
    IF Len(s) < 2 THEN s
    ELSE IF s[1] = CR /\ s[2] = NL
         THEN <<NL>> \o ReplaceLineEndings(SubSeq(s, 3, Len(s)))
         ELSE <<s[1]>> \o ReplaceLineEndings(Tail(s))

sanitizeOutput(output) ==
    Trim(RemoveAll(RemoveAll(ReplaceLineEndings(output), {CR}),
                   NON_ASCII_CONTROL))

\* replace(PROMPT_CHARS, ""): the last prompt character, when only white
\* space follows it, goes with that white space.
StripPrompt(line) ==
    LET t == TrimEnd(line)
    IN IF t # <<>> /\ t[Len(t)] \in PROMPT_CHARS
       THEN SubSeq(t, 1, Len(t) - 1)
       ELSE line

sanitizeLine(line) == Trim(RemoveAll(StripPrompt(line), NON_ASCII_CONTROL))

RECURSIVE sanitizeLines(_)
sanitizeLines(lines) ==
    IF lines = <<>> THEN <<>>
    ELSE (IF sanitizeLine(Head(lines)) # <<>>
          THEN <<sanitizeLine(Head(lines))>>
          ELSE <<>>) \o sanitizeLines(Tail(lines))

sanitizeRemainingBuffer(output) ==
    TrimEnd(Join(sanitizeLines(Split(output))))

\* strip-ansi on the control sequences ESC [ <digits and ;> <final byte>;
\* an ESC that starts no complete sequence stays.
RECURSIVE CsiEnd(_, _)
CsiEnd(s, i) ==
    IF i > Len(s) THEN 0
    ELSE IF s[i] \in (48..57) \cup {59} THEN CsiEnd(s, i + 1)
    ELSE IF s[i] \in (65..90) \cup (97..122) THEN i
    ELSE 0

RECURSIVE stripAnsi(_)
stripAnsi(s) ==
    IF s = <<>> THEN <<>>
    ELSE IF Len(s) >= 3 /\ s[1] = 27 /\ s[2] = 91 /\ CsiEnd(s, 3) > 0
         THEN stripAnsi(SubSeq(s, CsiEnd(s, 3) + 1, Len(s)))
         ELSE <<Head(s)>> \o stripAnsi(Tail(s))

(***************************************************************************)
(* State.                                                                  *)
(***************************************************************************)
VARIABLES
    terminals,      \* TerminalRegistry: terminals[id] is the TerminalInfo of id
    terminalIds,    \* TerminalManager.terminalIds
    processes,      \* TerminalManager.processes: id -> index in procs
    procs,          \* every TerminalProcess created so far, in creation order
    callers,        \* each caller of the pool: where it is, what it holds
    now,            \* Date.now()
    dataCount,      \* history: the chunks written so far, where recorded
    delivered,      \* history: the text written by the terminal, where recorded
    ret             \* what the last query returned

vars ==
    <<terminals, terminalIds, processes, procs, callers, now, dataCount,
      delivered, ret>>

Callers == {1, 2}
Dirs == {"/a", "/b"}
NoCwd == "undefined"
\* The command text each caller submits.
CommandOf(c) == <<"cmd", c>>
NoError == <<>>
RunOutcomes == {"ok", "subscribeThrows", "sendTextThrows"}
TerminalClosed == <<"Terminal closed">>

TerminalIdsOf(ts) == 1..Len(ts)

\* `Command execution timeout: ${command}`
TimeoutError(command) == <<"Command execution timeout: ">> \o command

\* `START_CMD_${Date.now()}` and `END_CMD_${Date.now()}`
StartMarker(t) == <<83, 84, 65, 82, 84, 95, 67, 77, 68, 95>> \o Digits(t)
EndMarker(t) == <<69, 78, 68, 95, 67, 77, 68, 95>> \o Digits(t)

Event(type, text, error) == [type |-> type, text |-> text, error |-> error]

\* new TerminalProcess(), with the state runCommand and run add around it
NewProcess(id, command, outcome, t) ==
    [ term |-> id,
      command |-> command,
      buffer |-> <<>>,
      cooldownTimeout |-> PROCESS_HOT_TIMEOUT_NORMAL,
      fullOutput |-> <<>>,
      isListening |-> TRUE,
      lastActivityTime |-> 0,
      lastRetrievedIndex |-> 0,
      listeners |-> {"completed", "continue", "error"},
      lineListener |-> FALSE,
      promise |-> "pending",
      reason |-> NoError,
      timer |-> "armed",
      deadline |-> t + COMMAND_TIMEOUT,
      startMarker |-> StartMarker(t),
      endMarker |-> EndMarker(t),
      outputStarted |-> FALSE,
      outputBuffer |-> <<>>,
      subscribed |-> outcome # "subscribeThrows",
      runError |-> IF outcome = "ok" THEN NoError ELSE TerminalClosed,
      events |-> <<>>,          \* history: the events emitted, in order
      fresh |-> <<>> ]          \* history: fullOutput's lines since the last retrieval

(***************************************************************************)
(* TerminalProcess.  The operators below act on a world w: the registry's  *)
(* terminals and the processes, w.procs[i] being the process at hand.      *)
(***************************************************************************)
compilingMarkers ==
    { <<99,111,109,112,105,108,105,110,103>>,           \* compiling
      <<98,117,105,108,100,105,110,103>>,               \* building
      <<98,117,110,100,108,105,110,103>>,               \* bundling
      <<116,114,97,110,115,112,105,108,105,110,103>>,   \* transpiling
      <<103,101,110,101,114,97,116,105,110,103>>,       \* generating
      <<115,116,97,114,116,105,110,103>> }              \* starting

markerNullifiers ==
    { <<99,111,109,112,105,108,101,100>>,               \* compiled
      <<115,117,99,99,101,115,115>>,                    \* success
      <<102,105,110,105,115,104>>,                      \* finish
      <<99,111,109,112,108,101,116,101>>,               \* complete
      <<115,117,99,99,101,101,100>>,                    \* succeed
      <<100,111,110,101>>,                              \* done
      <<101,110,100>>,                                  \* end
      <<115,116,111,112>>,                              \* stop
      <<101,120,105,116>>,                              \* exit
      <<116,101,114,109,105,110,97,116,101>>,           \* terminate
      <<101,114,114,111,114>>,                          \* error
      <<102,97,105,108>> }                              \* fail

\* A faulty variant: the nullifiers are not looked at.
isCompilingIgnoringNullifiers(data) ==
    \E marker \in compilingMarkers :
        Includes(ToLowerCase(data), ToLowerCase(marker))

isCompiling(data) ==
    /\ \E marker \in compilingMarkers :
           Includes(ToLowerCase(data), ToLowerCase(marker))
    /\ ~ \E nullifier \in markerNullifiers :
           Includes(ToLowerCase(data), ToLowerCase(nullifier))

\* A faulty variant: the end of the window is counted in.
isHotInclusive(p, t) ==
    IF p.lastActivityTime = 0 THEN FALSE
    ELSE t - p.lastActivityTime <= p.cooldownTimeout

isHot(p, t) ==
    IF p.lastActivityTime = 0 THEN FALSE
    ELSE t - p.lastActivityTime < p.cooldownTimeout

updateHotState(p, compiling, t) ==
    [p EXCEPT !.lastActivityTime = t,
              !.cooldownTimeout = IF compiling
                                  THEN PROCESS_HOT_TIMEOUT_COMPILING
                                  ELSE PROCESS_HOT_TIMEOUT_NORMAL]

\* The promise of runCommand: the first resolve or reject settles it.
cleanup(p) == [p EXCEPT !.timer = IF @ = "armed" THEN "cleared" ELSE @]

resolve(p) ==
    IF p.promise = "pending" THEN [p EXCEPT !.promise = "fulfilled"] ELSE p

reject(p, error) ==
    IF p.promise = "pending"
    THEN [p EXCEPT !.promise = "rejected", !.reason = error]
    ELSE p

\* A faulty variant: every terminal of the registry is marked idle.
onCompletedFreeingAll(w, i) ==
    [w EXCEPT !.terminals = [id \in DOMAIN @ |-> [@[id] EXCEPT !.busy = FALSE]]]

\* The listeners runCommand registers with once().
onCompleted(w, i) == [w EXCEPT !.terminals[w.procs[i].term].busy = FALSE]

\* A faulty variant: resolve() without cleanup().
onContinueWithoutCleanup(w, i) == [w EXCEPT !.procs[i] = resolve(@)]

onContinue(w, i) == [w EXCEPT !.procs[i] = resolve(cleanup(@))]

\* A faulty variant: the error is logged and not passed to reject().
onErrorWithoutReject(w, i, error) == [w EXCEPT !.procs[i] = cleanup(@)]

onError(w, i, error) == [w EXCEPT !.procs[i] = reject(cleanup(@), error)]

\* EventEmitter.emit: a once() listener is removed, then called.
emitLine(p, line) ==
    [p EXCEPT !.events = Append(@, Event("line", line, NoError))]

emitCompleted(w, i) ==
    LET w1 == [w EXCEPT !.procs[i].events =
                            Append(@, Event("completed", <<>>, NoError))]
    IN IF "completed" \in w.procs[i].listeners
       THEN onCompleted([w1 EXCEPT !.procs[i].listeners = @ \ {"completed"}], i)
       ELSE w1

emitContinue(w, i) ==
    LET w1 == [w EXCEPT !.procs[i].events =
                            Append(@, Event("continue", <<>>, NoError))]
    IN IF "continue" \in w.procs[i].listeners
       THEN onContinue([w1 EXCEPT !.procs[i].listeners = @ \ {"continue"}], i)
       ELSE w1

emitError(w, i, error) ==
    LET w1 == [w EXCEPT !.procs[i].events =
                            Append(@, Event("error", <<>>, error))]
    IN IF "error" \in w.procs[i].listeners
       THEN onError([w1 EXCEPT !.procs[i].listeners = @ \ {"error"}], i, error)
       ELSE w1

\* A faulty variant: the line is appended without its newline.
processOutputWithoutNewline(p, data, t) ==
    IF Trim(data) = <<>> THEN p
    ELSE LET sanitizedOutput == sanitizeOutput(data)
             p1 == IF sanitizedOutput # <<>>
                   THEN LET q == [p EXCEPT
                                    !.fullOutput = @ \o sanitizedOutput,
                                    !.fresh = @ \o sanitizedOutput]
                        IN IF q.isListening
                           THEN emitLine(q, sanitizedOutput)
                           ELSE q
                   ELSE p
         IN updateHotState(p1, isCompiling(data), t)

\* A faulty variant: a line is kept in fullOutput only while listening.
processOutputOnlyWhileListening(p, data, t) ==
    IF Trim(data) = <<>> THEN p
    ELSE LET sanitizedOutput == sanitizeOutput(data)
             p1 == IF sanitizedOutput # <<>> /\ p.isListening
                   THEN emitLine([p EXCEPT
                                    !.fullOutput = @ \o sanitizedOutput \o <<NL>>,
                                    !.fresh = @ \o sanitizedOutput \o <<NL>>],
                                 sanitizedOutput)
                   ELSE p
         IN updateHotState(p1, isCompiling(data), t)

processOutput(p, data, t) ==
    IF Trim(data) = <<>> THEN p
    ELSE LET sanitizedOutput == sanitizeOutput(data)
             p1 == IF sanitizedOutput # <<>>
                   THEN LET q == [p EXCEPT
                                    !.fullOutput = @ \o sanitizedOutput \o <<NL>>,
                                    !.fresh = @ \o sanitizedOutput \o <<NL>>]
                        IN IF q.isListening
                           THEN emitLine(q, sanitizedOutput)
                           ELSE q
                   ELSE p
         IN updateHotState(p1, isCompiling(data), t)

RECURSIVE processLines(_, _, _)
processLines(p, lines, t) ==
    IF lines = <<>> THEN p
    ELSE processLines(processOutput(p, Head(lines), t), Tail(lines), t)

emitRemainingBufferIfListening(p) ==
    IF p.buffer # <<>> /\ p.isListening
    THEN LET remainingBuffer == sanitizeRemainingBuffer(p.buffer)
             p1 == IF remainingBuffer # <<>>
                   THEN emitLine(p, remainingBuffer)
                   ELSE p
         IN [p1 EXCEPT !.buffer = <<>>,
                       !.lastRetrievedIndex = Len(p1.fullOutput)]
    ELSE p

continue(w, i) ==
    emitContinue(
        [w EXCEPT !.procs[i] =
            [emitRemainingBufferIfListening(@) EXCEPT !.isListening = FALSE,
                                                      !.lineListener = FALSE]],
        i)

\* A faulty variant: on the end marker, completed and continue are emitted
\* before the rest of the buffer is processed.
outputHandlerCompletingFirst(w, i, data, t) ==
    LET p == w.procs[i]
        sanitizedData == stripAnsi(data)
    IN IF Includes(sanitizedData, p.startMarker)
       THEN [w EXCEPT !.procs[i].outputStarted = TRUE]
       ELSE IF Includes(sanitizedData, p.endMarker)
       THEN LET w1 == emitContinue(emitCompleted(
                          [w EXCEPT !.procs[i].outputStarted = FALSE,
                                    !.procs[i].subscribed = FALSE], i), i)
            IN IF p.outputBuffer # <<>>
               THEN [w1 EXCEPT !.procs[i] = processOutput(@, p.outputBuffer, t)]
               ELSE w1
       ELSE IF p.outputStarted
       THEN LET outputBuffer == p.outputBuffer \o sanitizedData
                lines == Split(outputBuffer)
            IN IF Len(lines) > 1
               THEN [w EXCEPT !.procs[i] =
                       [processLines(@, SubSeq(lines, 1, Len(lines) - 1), t)
                           EXCEPT !.outputBuffer = lines[Len(lines)]]]
               ELSE [w EXCEPT !.procs[i].outputBuffer = outputBuffer]
       ELSE w

\* The listener run() gives terminal.onDidWriteData.
outputHandler(w, i, data, t) ==
    LET p == w.procs[i]
        sanitizedData == stripAnsi(data)
        w0 == w
    IN IF Includes(sanitizedData, p.startMarker)
       THEN [w0 EXCEPT !.procs[i].outputStarted = TRUE]
       ELSE IF Includes(sanitizedData, p.endMarker)
       THEN LET p0 == [w0.procs[i] EXCEPT !.outputStarted = FALSE]
                p1 == IF p0.outputBuffer # <<>>
                      THEN processOutput(p0, p0.outputBuffer, t)
                      ELSE p0
                w1 == [w0 EXCEPT !.procs[i] = [p1 EXCEPT !.subscribed = FALSE]]
            IN emitContinue(emitCompleted(w1, i), i)
       ELSE IF p.outputStarted
       THEN LET outputBuffer == p.outputBuffer \o sanitizedData
                lines == Split(outputBuffer)
            IN IF Len(lines) > 1
               THEN [w0 EXCEPT !.procs[i] =
                       [processLines(@, SubSeq(lines, 1, Len(lines) - 1), t)
                           EXCEPT !.outputBuffer = lines[Len(lines)]]]
               ELSE [w0 EXCEPT !.procs[i].outputBuffer = outputBuffer]
       ELSE w0

\* A faulty variant: the cursor stays where it was.
getUnretrievedOutputKeepingCursor(p) ==
    [ text |-> sanitizeRemainingBuffer(
                   SubSeq(p.fullOutput, p.lastRetrievedIndex + 1, Len(p.fullOutput))),
      proc |-> [p EXCEPT !.fresh = <<>>] ]

getUnretrievedOutput(p) ==
    [ text |-> sanitizeRemainingBuffer(
                   SubSeq(p.fullOutput, p.lastRetrievedIndex + 1, Len(p.fullOutput))),
      proc |-> [p EXCEPT !.lastRetrievedIndex = Len(p.fullOutput),
                         !.fresh = <<>>] ]

(***************************************************************************)
(* TerminalRegistry and the helpers TerminalManager imports.               *)
(***************************************************************************)
\* arePathsEqual on normalized paths
arePathsEqual(a, b) == a = b

\* TerminalRegistry.createTerminal(cwd): the next id, idle, no command yet;
\* the shell has reported no working directory yet.
createTerminal(ts, cwd) ==
    Append(ts, [busy |-> FALSE, lastCommand |-> <<>>, cwd |-> NoCwd])

(***************************************************************************)
(* TerminalManager.                                                        *)
(***************************************************************************)
World == [terminals |-> terminals, procs |-> procs]

\* A faulty variant: a busy terminal is not passed over.
isAvailableIgnoringBusy(t, cwd) ==
    IF t.cwd = NoCwd THEN FALSE
    ELSE arePathsEqual(cwd, t.cwd)

\* The predicate of getAllTerminals().find(...) in getOrCreateTerminal
isAvailable(t, cwd) ==
    IF t.busy THEN FALSE
    ELSE IF t.cwd = NoCwd THEN FALSE
    ELSE arePathsEqual(cwd, t.cwd)

\* find(): the first terminal of the registry that is available, 0 for none
availableTerminal(ts, cwd) ==
    IF \E id \in TerminalIdsOf(ts) : isAvailable(ts[id], cwd)
    THEN CHOOSE id \in TerminalIdsOf(ts) :
             /\ isAvailable(ts[id], cwd)
             /\ \A other \in 1..(id - 1) : ~isAvailable(ts[other], cwd)
    ELSE 0

GetOrCreateTerminal(c, cwd) ==
    /\ callers[c].pc = "idle"
    /\ LET found == availableTerminal(terminals, cwd)
       IN IF found # 0
          THEN /\ terminalIds' = terminalIds \cup {found}
               /\ callers' = [callers EXCEPT ![c] = [pc |-> "acquired",
                                                     terminal |-> found]]
               /\ UNCHANGED terminals
          ELSE /\ Len(terminals) < MaxTerminals
               /\ terminals' = createTerminal(terminals, cwd)
               /\ terminalIds' = terminalIds \cup {Len(terminals) + 1}
               /\ callers' = [callers EXCEPT ![c] = [pc |-> "acquired",
                                                     terminal |-> Len(terminals) + 1]]
    /\ UNCHANGED <<processes, procs, now, dataCount, delivered, ret>>

\* runCommand, with the run() it starts; outcome is what the terminal does
\* with the subscription and with sendText.
runCommand(w, id, command, outcome, t) ==
    [ terminals |-> [w.terminals EXCEPT ![id].busy = TRUE,
                                        ![id].lastCommand = command],
      procs |-> Append(w.procs, NewProcess(id, command, outcome, t)) ]

RunCommand(c, command, outcome) ==
    /\ callers[c].pc = "acquired"
    /\ now + COMMAND_TIMEOUT <= MaxNow
    /\ LET id == callers[c].terminal
           w == runCommand(World, id, command, outcome, now)
       IN /\ terminals' = w.terminals
          /\ procs' = w.procs
          /\ processes' = (id :> Len(w.procs)) @@ processes
    /\ callers' = [callers EXCEPT ![c].pc = "done"]
    /\ UNCHANGED <<terminalIds, now, dataCount, delivered, ret>>

\* Terminal id writes one chunk: every handler subscribed to it gets it, in
\* the order of subscription.
RECURSIVE deliver(_, _, _, _, _)
deliver(w, id, i, data, t) ==
    IF i > Len(w.procs) THEN w
    ELSE deliver(IF w.procs[i].term = id /\ w.procs[i].subscribed
                 THEN outputHandler(w, i, data, t)
                 ELSE w,
                 id, i + 1, data, t)

WriteDataWithin(id, data, record, limit) ==
    /\ record => dataCount < MaxChunks
    /\ \E i \in 1..Len(procs) : procs[i].term = id /\ procs[i].subscribed
    /\ LET w == deliver(World, id, 1, data, now)
       IN /\ \A i \in 1..Len(procs) :
                 Len(w.procs[i].fullOutput) + Len(w.procs[i].outputBuffer)
                     <= limit
          /\ terminals' = w.terminals
          /\ procs' = w.procs
    /\ dataCount' = IF record THEN dataCount + 1 ELSE dataCount
    /\ delivered' = IF record THEN delivered \o data ELSE delivered
    /\ UNCHANGED <<terminalIds, processes, callers, now, ret>>

WriteData(id, data, record) == WriteDataWithin(id, data, record, MaxOutput)

\* The callback of setTimeout(..., 30000) in runCommand
TimeoutFires(i) ==
    /\ procs[i].timer = "armed"
    /\ now >= procs[i].deadline
    /\ LET w == emitError([World EXCEPT !.procs[i].timer = "fired"], i,
                          TimeoutError(procs[i].command))
       IN /\ terminals' = w.terminals
          /\ procs' = w.procs
    /\ UNCHANGED <<terminalIds, processes, callers, now, dataCount, delivered, ret>>

\* A holder of the handle calls continue() on it (once per handle).
Continue(i) ==
    /\ procs[i].isListening
    /\ LET w == continue(World, i)
       IN /\ terminals' = w.terminals
          /\ procs' = w.procs
    /\ UNCHANGED <<terminalIds, processes, callers, now, dataCount, delivered, ret>>

\* The holder of the handle subscribes to its line events: on("line", ...).
OnLine(i) ==
    /\ ~procs[i].lineListener
    /\ procs[i].isListening
    /\ procs' = [procs EXCEPT ![i].lineListener = TRUE]
    /\ UNCHANGED <<terminals, terminalIds, processes, callers, now, dataCount,
                   delivered, ret>>

\* TerminalManager.getUnretrievedOutput(terminalId)
GetUnretrievedOutput(id) ==
    /\ IF id \in terminalIds /\ id \in DOMAIN processes
       THEN LET got == getUnretrievedOutput(procs[processes[id]])
            IN /\ procs' = [procs EXCEPT ![processes[id]] = got.proc]
               /\ ret' = [op |-> "getUnretrievedOutput", id |-> id,
                          text |-> got.text,
                          fresh |-> procs[processes[id]].fresh]
       ELSE /\ procs' = procs
            /\ ret' = [op |-> "getUnretrievedOutput", id |-> id,
                       text |-> <<>>, fresh |-> <<>>]
    /\ UNCHANGED <<terminals, terminalIds, processes, callers, now, dataCount, delivered>>

\* A faulty variant: the processes map is left as it is.
DisposeAllKeepingProcesses ==
    /\ terminalIds # {} \/ DOMAIN processes # {}
    /\ terminalIds' = {}
    /\ UNCHANGED <<terminals, processes, procs, callers, now, dataCount,
                   delivered, ret>>

\* TerminalManager.disposeAll()
DisposeAll ==
    /\ terminalIds # {} \/ DOMAIN processes # {}
    /\ terminalIds' = {}
    /\ processes' = <<>>
    /\ UNCHANGED <<terminals, procs, callers, now, dataCount, delivered, ret>>

\* TerminalManager.isProcessHot(terminalId)
isProcessHot(procMap, ps, id, t) ==
    IF id \in DOMAIN procMap THEN isHot(ps[procMap[id]], t) ELSE FALSE

IsProcessHot(id) ==
    /\ ret' = [op |-> "isProcessHot", id |-> id,
               value |-> isProcessHot(processes, procs, id, now)]
    /\ UNCHANGED <<terminals, terminalIds, processes, procs, callers, now,
                   dataCount, delivered>>

\* A faulty variant: every terminal of the registry is looked at.
getTerminalsOfRegistry(ids, ts, busy) ==
    { [id |-> id, lastCommand |-> ts[id].lastCommand] :
          id \in {x \in TerminalIdsOf(ts) : ts[x].busy = busy} }

\* TerminalManager.getTerminals(busy); TerminalRegistry.getTerminal(id) is
\* undefined for an id the registry does not hold.
getTerminals(ids, ts, busy) ==
    { [id |-> id, lastCommand |-> ts[id].lastCommand] :
          id \in {x \in ids : x \in TerminalIdsOf(ts) /\ ts[x].busy = busy} }

GetTerminals(busy) ==
    /\ ret' = [op |-> "getTerminals", busy |-> busy,
               value |-> getTerminals(terminalIds, terminals, busy)]
    /\ UNCHANGED <<terminals, terminalIds, processes, procs, callers, now,
                   dataCount, delivered>>

\* Another user of the shared registry creates a terminal.
CreateElsewhere(cwd) ==
    /\ Len(terminals) < MaxTerminals
    /\ terminals' = createTerminal(terminals, cwd)
    /\ UNCHANGED <<terminalIds, processes, procs, callers, now, dataCount,
                   delivered, ret>>

\* The shell integration of terminal id starts to report its working
\* directory.
ReportCwd(id, dir) ==
    /\ terminals[id].cwd = NoCwd
    /\ terminals' = [terminals EXCEPT ![id].cwd = dir]
    /\ UNCHANGED <<terminalIds, processes, procs, callers, now, dataCount, delivered, ret>>

\* Time passes.
Tick(d) ==
    /\ now + d <= MaxNow
    /\ now' = now + d
    /\ UNCHANGED <<terminals, terminalIds, processes, procs, callers, dataCount,
                   delivered, ret>>

(***************************************************************************)
(* The pool with its callers.                                              *)
(***************************************************************************)
\* What the shell echoes of the commands sent to terminal id: their markers.
MarkersOn(id) ==
    UNION { {procs[i].startMarker, procs[i].endMarker} :
                i \in {j \in 1..Len(procs) : procs[j].term = id} }

PoolChunks(id) == MarkersOn(id)

TickSteps == {30000}

Init ==
    /\ terminals = <<>>
    /\ terminalIds = {}
    /\ processes = <<>>
    /\ procs = <<>>
    /\ callers = [c \in Callers |-> [pc |-> "idle", terminal |-> 0]]
    /\ now = Epoch
    /\ dataCount = 0
    /\ delivered = <<>>
    /\ ret = [op |-> "none", id |-> 0, text |-> <<>>, fresh |-> <<>>]

Next ==
    \/ \E c \in Callers, cwd \in Dirs : GetOrCreateTerminal(c, cwd)
    \/ \E c \in Callers, outcome \in RunOutcomes :
           RunCommand(c, CommandOf(c), outcome)
    \/ \E id \in TerminalIdsOf(terminals) :
           \E data \in PoolChunks(id) : WriteData(id, data, FALSE)
    \/ \E i \in 1..Len(procs) : TimeoutFires(i)
    \/ \E i \in 1..Len(procs) : Continue(i)
    \/ \E id \in TerminalIdsOf(terminals), dir \in Dirs : ReportCwd(id, dir)
    \/ \E d \in TickSteps : Tick(d)

Spec == Init /\ [][Next]_vars

\* The event loop runs a timer that is due, and time passes.
ProcIds == 1..Cardinality(Callers)

FairSpec ==
    /\ Spec
    /\ WF_vars(\E d \in TickSteps : Tick(d))
    /\ \A i \in ProcIds : WF_vars(i <= Len(procs) /\ TimeoutFires(i))

(***************************************************************************)
(* One command and its output: caller 1 runs one command, the terminal     *)
(* writes its output in chunks, and the holder of the handle detaches,     *)
(* polls and disposes.  The text written is recorded in delivered.         *)
(***************************************************************************)
\* "a\n", "b", "$\n", and "a\n" in a colour sequence's wake: ESC [ 0 m a \n
Fragments == { <<97, 10>>, <<98>>, <<36, 10>>, <<27, 91, 48, 109, 97, 10>> }

\* The chunks of terminal id: a marker, a piece of output, or a start marker
\* with the output that follows it.
OutputChunks(id) ==
    MarkersOn(id) \cup Fragments
        \cup { procs[i].startMarker \o <<97, 10>> :
                   i \in {j \in 1..Len(procs) : procs[j].term = id} }

OutputNext ==
    \/ \E cwd \in Dirs : GetOrCreateTerminal(1, cwd)
    \/ RunCommand(1, CommandOf(1), "ok")
    \/ \E id \in TerminalIdsOf(terminals) :
           \E data \in OutputChunks(id) : WriteData(id, data, TRUE)
    \/ \E i \in 1..Len(procs) : Continue(i)
    \/ \E id \in TerminalIdsOf(terminals) : GetUnretrievedOutput(id)
    \/ DisposeAll

OutputSpec == Init /\ [][OutputNext]_vars

(***************************************************************************)
(* The hot state: caller 1 runs one command, the terminal writes lines of  *)
(* a build, time passes in steps that meet the ends of both windows, and   *)
(* the pool is asked whether the process is hot.                           *)
(***************************************************************************)
\* "compiling module A\n", "build complete\n", "Building done\n"
BuildLines ==
    { <<99,111,109,112,105,108,105,110,103,32,109,111,100,117,108,101,32,65,10>>,
      <<98,117,105,108,100,32,99,111,109,112,108,101,116,101,10>>,
      <<66,117,105,108,100,105,110,103,32,100,111,110,101,10>> }

HotChunks(id) == MarkersOn(id) \cup BuildLines

\* The instants at which something happens: the start, and the last
\* millisecond and the end of each window counted from the start.
HotTimes ==
    { Epoch + d : d \in { 0,
                          PROCESS_HOT_TIMEOUT_NORMAL - 1,
                          PROCESS_HOT_TIMEOUT_NORMAL,
                          PROCESS_HOT_TIMEOUT_COMPILING - 1,
                          PROCESS_HOT_TIMEOUT_COMPILING } }

HotNext ==
    \/ \E cwd \in Dirs : GetOrCreateTerminal(1, cwd)
    \/ RunCommand(1, CommandOf(1), "ok")
    \/ \E id \in TerminalIdsOf(terminals) :
           \E data \in HotChunks(id) :
               WriteDataWithin(id, data, FALSE, MaxHotOutput)
    \/ \E i \in 1..Len(procs) : Continue(i)
    \/ \E id \in TerminalIdsOf(terminals) : IsProcessHot(id)
    \/ \E t \in HotTimes : t > now /\ Tick(t - now)

HotSpec == Init /\ [][HotNext]_vars

(***************************************************************************)
(* The pool on a shared registry: the callers acquire terminals and run    *)
(* commands, other users of the registry create terminals of their own,    *)
(* and the pool is asked for its terminals.                                *)
(***************************************************************************)
ListNext ==
    \/ \E c \in Callers, cwd \in Dirs : GetOrCreateTerminal(c, cwd)
    \/ \E c \in Callers : RunCommand(c, CommandOf(c), "ok")
    \/ \E id \in TerminalIdsOf(terminals) :
           \E data \in PoolChunks(id) : WriteData(id, data, FALSE)
    \/ \E id \in TerminalIdsOf(terminals), dir \in Dirs : ReportCwd(id, dir)
    \/ \E cwd \in Dirs : CreateElsewhere(cwd)
    \/ \E busy \in BOOLEAN : GetTerminals(busy)

ListSpec == Init /\ [][ListNext]_vars

(***************************************************************************)
(* One command that prints hello: caller 1 runs it and subscribes to the   *)
(* line events of the handle, the terminal writes the markers and the      *)
(* line, the timer runs, and the pool is asked for the pending output.     *)
(***************************************************************************)
\* "hello"
Hello == <<104, 101, 108, 108, 111>>

LineChunks(id) == MarkersOn(id) \cup {Hello \o <<NL>>}

LineNext ==
    \/ \E cwd \in Dirs : GetOrCreateTerminal(1, cwd)
    \/ RunCommand(1, CommandOf(1), "ok")
    \/ \E i \in 1..Len(procs) : OnLine(i)
    \/ \E id \in TerminalIdsOf(terminals) :
           \E data \in LineChunks(id) :
               WriteDataWithin(id, data, TRUE, MaxLineOutput)
    \/ \E id \in TerminalIdsOf(terminals) : GetUnretrievedOutput(id)
    \/ \E i \in 1..Len(procs) : TimeoutFires(i)
    \/ \E d \in TickSteps : Tick(d)

LineSpec == Init /\ [][LineNext]_vars

(***************************************************************************)
(* Disposal: caller 1 runs one command, the terminal writes markers and a  *)
(* line, the timer runs, the pool is disposed of and is asked for its      *)
(* terminals, for pending output and for the hot state.                    *)
(***************************************************************************)
DisposeChunks(id) == MarkersOn(id) \cup { <<97, 10>> }

DisposeNext ==
    \/ \E cwd \in Dirs : GetOrCreateTerminal(1, cwd)
    \/ RunCommand(1, CommandOf(1), "ok")
    \/ \E id \in TerminalIdsOf(terminals) :
           \E data \in DisposeChunks(id) : WriteData(id, data, FALSE)
    \/ DisposeAll
    \/ \E busy \in BOOLEAN : GetTerminals(busy)
    \/ \E id \in TerminalIdsOf(terminals) : GetUnretrievedOutput(id)
    \/ \E id \in TerminalIdsOf(terminals) : IsProcessHot(id)
    \/ \E i \in 1..Len(procs) : TimeoutFires(i)
    \/ \E d \in TickSteps : Tick(d)

DisposeSpec ==
    /\ Init /\ [][DisposeNext]_vars
    /\ WF_vars(\E d \in TickSteps : Tick(d))
    /\ \A i \in ProcIds : WF_vars(i <= Len(procs) /\ TimeoutFires(i))

(***************************************************************************)
(* Properties.                                                             *)
(***************************************************************************)
HasEvent(p, type) == \E k \in 1..Len(p.events) : p.events[k].type = type

EventsOfType(p, type) == SelectSeq(p.events, LAMBDA e : e.type = type)

Settled(p) == p.promise # "pending"

\* An execution that has neither completed nor timed out.
Running(p) == ~HasEvent(p, "completed") /\ p.timer # "fired"

RunningOn(id) == {i \in 1..Len(procs) : procs[i].term = id /\ Running(procs[i])}

\* C1: at the step that settles a handle, by fulfilment or by rejection, the
\* busy flag of its session is false.  Stated for the handles nobody called
\* continue() on, which settle by the end marker or by the timeout only.
C1_SettledMeansIdle ==
    [][\A i \in 1..Len(procs) :
          (~Settled(procs[i]) /\ Settled(procs'[i]) /\ procs'[i].isListening)
              => ~terminals'[procs[i].term].busy]_vars

\* C2: a session never has two executions running at once, and it is busy
\* whenever one of its executions is running.
C2_OneExecutionPerSession ==
    \A id \in TerminalIdsOf(terminals) :
        /\ Cardinality(RunningOn(id)) <= 1
        /\ RunningOn(id) # {} => terminals[id].busy

\* C3: getOrCreateTerminal(cwd) returns an existing terminal that is not busy
\* and reports cwd as its working directory, or, when there is none, a
\* terminal the registry newly creates; what it returns is not busy and its
\* id is among the pool's terminalIds.
C3_AcquireReturnsIdleMatchOrNew ==
    [][\A c \in Callers, cwd \in Dirs :
          GetOrCreateTerminal(c, cwd) =>
              LET id == callers'[c].terminal
                  matches == {t \in TerminalIdsOf(terminals) :
                                  /\ ~terminals[t].busy
                                  /\ terminals[t].cwd = cwd}
              IN /\ id \in terminalIds'
                 /\ id \in TerminalIdsOf(terminals')
                 /\ ~terminals'[id].busy
                 /\ IF matches # {}
                    THEN id \in matches /\ terminals' = terminals
                    ELSE /\ id \notin TerminalIdsOf(terminals)
                         /\ Len(terminals') = Len(terminals) + 1]_vars

C3_Witness ==
    \E c \in Callers :
        /\ callers[c].pc = "acquired"
        /\ \E i \in 1..Len(procs) :
               /\ procs[i].term = callers[c].terminal
               /\ HasEvent(procs[i], "completed")

\* C4: when the timer fires the handle rejects with the error that names the
\* command, and a handle for which no end marker was observed never fulfils.
C4_NoEndMarkerNeverFulfils ==
    \A i \in 1..Len(procs) :
        /\ procs[i].timer = "fired" =>
               /\ procs[i].promise = "rejected"
               /\ procs[i].reason = TimeoutError(procs[i].command)
        /\ procs[i].promise = "fulfilled" => HasEvent(procs[i], "completed")

\* C5: a settled handle keeps its result whatever happens later, its timer
\* is not armed any more, and no error event is emitted after settlement.
C5_SettledOnce ==
    [][\A i \in 1..Len(procs) :
          Settled(procs[i]) =>
              /\ procs'[i].promise = procs[i].promise
              /\ procs'[i].reason = procs[i].reason
              /\ procs[i].timer # "armed"
              /\ procs'[i].timer = procs[i].timer
              /\ EventsOfType(procs'[i], "error") = EventsOfType(procs[i], "error")]_vars

C5_Witness ==
    \E i \in 1..Len(procs) :
        /\ procs[i].promise = "rejected"
        /\ procs[i].timer = "fired"
        /\ HasEvent(procs[i], "completed")

\* C6: every handle eventually settles, given that a due timer eventually
\* fires and time passes.
C6_EveryHandleSettles ==
    \A i \in ProcIds :
        (i <= Len(procs)) ~> (i <= Len(procs) /\ Settled(procs[i]))

C6_Witness ==
    \E i \in 1..Len(procs) :
        /\ procs[i].promise = "rejected"
        /\ procs[i].reason = TimeoutError(procs[i].command)
        /\ ~HasEvent(procs[i], "completed")

\* C7: when run() fails to start the command, the handle rejects with the
\* error run() raised, not with a timeout error.
C7_RunFailureRejectsWithUnderlyingError ==
    \A i \in 1..Len(procs) :
        (procs[i].runError # NoError /\ procs[i].promise = "rejected")
            => procs[i].reason = procs[i].runError

\* The first place of m in s, 0 when s does not include m.
IndexOf(s, m) ==
    IF Includes(s, m)
    THEN CHOOSE i \in 1..(Len(s) - Len(m) + 1) :
             /\ SubSeq(s, i, i + Len(m) - 1) = m
             /\ \A j \in 1..(i - 1) : SubSeq(s, j, j + Len(m) - 1) # m
    ELSE 0

\* A text with the start marker, then the output, then the end marker.
Framed(text, p) ==
    /\ Includes(text, p.startMarker)
    /\ Includes(text, p.endMarker)
    /\ IndexOf(text, p.startMarker) + Len(p.startMarker) <= IndexOf(text, p.endMarker)

\* The process as run() leaves it, given the whole text as one chunk.
InOneChunk(p, text) ==
    outputHandler(
        [terminals |-> terminals,
         procs |-> <<NewProcess(p.term, p.command, "ok",
                                p.deadline - COMMAND_TIMEOUT)>>],
        1, text, now).procs[1]

\* C8: for a framed text, the line events, and whether completed is emitted,
\* are those of the same text written as a single chunk.
C8_ChunkingDoesNotMatter ==
    \A i \in 1..Len(procs) :
        (procs[i].isListening /\ Framed(delivered, procs[i])) =>
            /\ EventsOfType(procs[i], "line")
                   = EventsOfType(InOneChunk(procs[i], delivered), "line")
            /\ HasEvent(procs[i], "completed")
                   <=> HasEvent(InOneChunk(procs[i], delivered), "completed")

\* C9: getUnretrievedOutput returns the sanitized lines appended to
\* fullOutput since the previous call, and nothing else: the empty string
\* when there are none, and never text an earlier call returned.
C9_UnretrievedIsTheNewOutput ==
    ret.op = "getUnretrievedOutput" =>
        ret.text = sanitizeRemainingBuffer(ret.fresh)

C9_Witness ==
    /\ ret.op = "getUnretrievedOutput"
    /\ ret.text # <<>>
    /\ ret.id \in DOMAIN processes
    /\ \E i \in 1..Len(procs) :
           /\ processes[ret.id] = i
           /\ procs[i].lastRetrievedIndex = Len(procs[i].fullOutput)
           /\ Len(ret.fresh) < Len(procs[i].fullOutput)

\* C10: continue() on a capturing execution with a partial line buffered
\* appends that line, sanitized, to fullOutput and leaves nothing buffered.
C10_ContinueFlushesPartialLine ==
    [][\A i \in 1..Len(procs) :
          ( /\ procs[i].isListening /\ ~procs'[i].isListening
            /\ procs[i].subscribed /\ procs[i].outputStarted
            /\ sanitizeOutput(procs[i].outputBuffer) # <<>> )
          => /\ procs'[i].fullOutput =
                    procs[i].fullOutput
                        \o sanitizeOutput(procs[i].outputBuffer) \o <<NL>>
             /\ procs'[i].outputBuffer = <<>>]_vars

\* C11: continue() called on an execution whose handle is pending leaves the
\* handle pending: a handle settles by completion, by the timeout or by an
\* error only.
C11_DetachDoesNotSettle ==
    [][\A i \in 1..Len(procs) :
          (procs[i].isListening /\ ~procs'[i].isListening /\ ~Settled(procs[i]))
              => ~Settled(procs'[i])]_vars

\* C13: a terminal id is a key of the processes map only while the execution
\* stored for it has neither completed nor timed out.
C13_ProcessesHoldRunningOnly ==
    \A id \in DOMAIN processes : Running(procs[processes[id]])

\* C19: once the timer has fired for an execution, a chunk the terminal
\* writes afterwards changes neither its fullOutput, its cursor nor its hot
\* state, and emits no event on it.  (A step that leaves isListening as it
\* was is not a call of continue().)
C19_TimedOutIsFrozen ==
    [][\A i \in 1..Len(procs) :
          (procs[i].timer = "fired"
               /\ procs'[i].isListening = procs[i].isListening) =>
              /\ procs'[i].fullOutput = procs[i].fullOutput
              /\ procs'[i].lastRetrievedIndex = procs[i].lastRetrievedIndex
              /\ procs'[i].lastActivityTime = procs[i].lastActivityTime
              /\ procs'[i].cooldownTimeout = procs[i].cooldownTimeout
              /\ procs'[i].events = procs[i].events]_vars

\* C18: a step in which the execution of one terminal completes or gets an
\* error (the timeout's included) leaves the executions of every other
\* terminal as they were, with the busy flag and lastCommand of that
\* terminal and the execution the pool records for it.
C18_OtherSessionsUntouched ==
    [][\A i, j \in 1..Len(procs) :
          ( /\ procs[i].term # procs[j].term
            /\ \E type \in {"completed", "error"} :
                   EventsOfType(procs'[i], type) # EventsOfType(procs[i], type) )
          => /\ procs'[j] = procs[j]
             /\ terminals'[procs[j].term] = terminals[procs[j].term]
             /\ processes'[procs[j].term] = processes[procs[j].term]]_vars

C18_Witness ==
    \E i, j \in 1..Len(procs) :
        /\ procs[i].term # procs[j].term
        /\ HasEvent(procs[i], "completed")
        /\ Running(procs[j])
        /\ ~Settled(procs[j])
        /\ terminals[procs[j].term].busy
        /\ processes[procs[j].term] = j

\* The characters of a are found in b, in their order.
RECURSIVE IsSubsequence(_, _)
IsSubsequence(a, b) ==
    IF a = <<>> THEN TRUE
    ELSE IF b = <<>> THEN FALSE
    ELSE IF Head(a) = Head(b) THEN IsSubsequence(Tail(a), Tail(b))
    ELSE IsSubsequence(a, Tail(b))

TextsOf(events) == [k \in 1..Len(events) |-> events[k].text]

\* C12: the line events of an execution, taken in the order of emission and
\* each ended by a newline, are found in that order in the text the terminal
\* wrote, and no line event follows the completed event.
C12_LinesInStreamOrder ==
    \A i \in 1..Len(procs) :
        /\ IsSubsequence(Join(TextsOf(EventsOfType(procs[i], "line"))), delivered)
        /\ \A k, m \in 1..Len(procs[i].events) :
               (k < m /\ procs[i].events[k].type = "completed")
                   => procs[i].events[m].type # "line"

C12_Witness ==
    \E i \in 1..Len(procs) :
        LET lines == EventsOfType(procs[i], "line")
        IN /\ Len(lines) = 2
           /\ lines[1].text # lines[2].text
           /\ procs[i].events[Len(procs[i].events) - 1].type = "completed"
           /\ procs[i].events[Len(procs[i].events) - 2].type = "line"

\* The lines of a text that a newline ends.
CompleteLines(text) == SubSeq(Split(text), 1, Len(Split(text)) - 1)

\* The lines that are not empty once sanitized, each ended by a newline.
RECURSIVE NonEmptyLines(_)
NonEmptyLines(lines) ==
    IF lines = <<>> THEN <<>>
    ELSE (IF sanitizeOutput(Head(lines)) # <<>>
          THEN sanitizeOutput(Head(lines)) \o <<NL>>
          ELSE <<>>) \o NonEmptyLines(Tail(lines))

\* The chunk the terminal writes in a step that records it.
WrittenChunk == SubSeq(delivered', Len(delivered) + 1, Len(delivered'))

C14_HotWindow ==
    [][\A id \in TerminalIdsOf(terminals) :
          (IsProcessHot(id) /\ id \in DOMAIN processes) =>
              LET p == procs[processes[id]]
                  t == p.lastActivityTime
                  c == p.cooldownTimeout
              IN /\ (t = 0) => (ret'.value = FALSE)
                 /\ (t # 0 /\ t <= now /\ now < t + c) => (ret'.value = TRUE)
                 /\ (t # 0 /\ now >= t + c) => (ret'.value = FALSE)]_vars

C14_Witness ==
    /\ ret.op = "isProcessHot"
    /\ ret.value = FALSE
    /\ ret.id \in DOMAIN processes
    /\ LET p == procs[processes[ret.id]]
       IN /\ p.lastActivityTime # 0
          /\ p.cooldownTimeout = PROCESS_HOT_TIMEOUT_COMPILING
          /\ now = p.lastActivityTime + p.cooldownTimeout

\* The last line of the text a step appends to fullOutput.
LastAppendedLine(before, after) ==
    LET lines == Split(SubSeq(after, Len(before) + 1, Len(after) - 1))
    IN lines[Len(lines)]

\* C15: a step that appends a line to fullOutput, listening or not, sets
\* lastActivityTime to the time of the step, and the cooldown to 15 000 ms
\* when the lowercased line contains a compiling marker and no nullifier,
\* to 2 000 ms otherwise.
C15_CooldownFollowsLine ==
    [][\A i \in 1..Len(procs) :
          procs'[i].fullOutput # procs[i].fullOutput =>
              LET line == ToLowerCase(LastAppendedLine(procs[i].fullOutput,
                                                       procs'[i].fullOutput))
                  building == /\ \E m \in compilingMarkers : Includes(line, m)
                              /\ \A n \in markerNullifiers : ~Includes(line, n)
              IN /\ procs'[i].lastActivityTime = now
                 /\ procs'[i].cooldownTimeout =
                        IF building THEN 15000 ELSE 2000]_vars

\* "compiling module A", then later "build complete", after continue().
C15_Witness ==
    \E i \in 1..Len(procs) :
        /\ ~procs[i].isListening
        /\ EventsOfType(procs[i], "line") = <<>>
        /\ Len(Split(procs[i].fullOutput)) = 3
        /\ Includes(Split(procs[i].fullOutput)[1], <<99,111,109,112,105,108,105,110,103>>)
        /\ Includes(Split(procs[i].fullOutput)[2], <<99,111,109,112,108,101,116,101>>)
        /\ procs[i].cooldownTimeout = PROCESS_HOT_TIMEOUT_NORMAL
        /\ procs[i].lastActivityTime > Epoch

\* The terminals getOrCreateTerminal has returned to a caller.
Acquired == {callers[c].terminal : c \in {x \in Callers : callers[x].pc # "idle"}}

\* C16: getTerminals(busy) returns the terminals the pool has acquired whose
\* busy flag is the one asked for, each with its lastCommand, and no others.
C16_ListsAcquiredByBusy ==
    [][\A busy \in BOOLEAN :
          GetTerminals(busy) =>
              /\ {e.id : e \in ret'.value}
                     = {id \in Acquired : terminals[id].busy = busy}
              /\ \A e \in ret'.value :
                     e.lastCommand = terminals[e.id].lastCommand]_vars

\* An idle terminal that ran a command is listed, another idle one that the
\* pool never acquired is not.
C16_Witness ==
    /\ ret.op = "getTerminals"
    /\ ret.busy = FALSE
    /\ \E e \in ret.value : e.lastCommand # <<>> /\ ~terminals[e.id].busy
    /\ \E id \in TerminalIdsOf(terminals) \ Acquired :
           /\ ~terminals[id].busy
           /\ \A e \in ret.value : e.id # id

\* The terminal wrote the start marker, the line hello and the end marker,
\* the end marker before the timer of p was due, and p has a line subscriber.
HelloScenario(p) ==
    /\ p.lineListener
    /\ delivered = p.startMarker \o Hello \o <<NL>> \o p.endMarker
    /\ now < p.deadline

\* C17: in the hello scenario the handle is fulfilled, exactly one line
\* event, with the text hello, has been emitted, and the first
\* getUnretrievedOutput for the terminal after that returns the empty string.
C17_HelloAlreadyDrained ==
    [][\A id \in TerminalIdsOf(terminals) :
          ( /\ GetUnretrievedOutput(id)
            /\ id \in terminalIds
            /\ id \in DOMAIN processes
            /\ HelloScenario(procs[processes[id]])
            /\ ret.op = "none" )
          => /\ procs[processes[id]].promise = "fulfilled"
             /\ EventsOfType(procs[processes[id]], "line")
                    = <<Event("line", Hello, NoError)>>
             /\ ret'.text = <<>>]_vars

\* The text that follows the first m in s.
TextAfter(s, m) == SubSeq(s, IndexOf(s, m) + Len(m), Len(s))

\* C21: a chunk that holds the start marker, written while capture has not
\* started, starts the capture with the text that follows the marker: its
\* complete non-empty lines are appended to fullOutput and the rest is
\* buffered.
C21_TextAfterStartMarkerIsCaptured ==
    [][\A i \in 1..Len(procs) :
          ( /\ dataCount' = dataCount + 1
            /\ procs[i].subscribed /\ ~procs[i].outputStarted
            /\ Includes(stripAnsi(WrittenChunk), procs[i].startMarker)
            /\ ~Includes(stripAnsi(WrittenChunk), procs[i].endMarker) )
          => LET rest == TextAfter(stripAnsi(WrittenChunk), procs[i].startMarker)
             IN /\ procs'[i].outputStarted
                /\ procs'[i].fullOutput =
                       procs[i].fullOutput \o NonEmptyLines(CompleteLines(rest))
                /\ procs'[i].outputBuffer = Split(rest)[Len(Split(rest))]]_vars

\* C22: the completed event is emitted only for an execution that is
\* capturing, its start marker observed.
C22_CompletedOnlyFromCapturing ==
    [][\A i \in 1..Len(procs) :
          (~HasEvent(procs[i], "completed") /\ HasEvent(procs'[i], "completed"))
              => procs[i].outputStarted]_vars

\* C23: the start marker and the end marker of an execution differ, and no
\* two executions have a marker in common.
C23_MarkersAreUnique ==
    \A i, j \in 1..Len(procs) :
        /\ procs[i].startMarker # procs[i].endMarker
        /\ i # j =>
               {procs[i].startMarker, procs[i].endMarker}
                   \cap {procs[j].startMarker, procs[j].endMarker} = {}

\* The texts of a sequence of events, each followed by a newline.
RECURSIVE LinesText(_)
LinesText(events) ==
    IF events = <<>> THEN <<>>
    ELSE Head(events).text \o <<NL>> \o LinesText(Tail(events))

IsPrefix(a, b) == Len(a) <= Len(b) /\ SubSeq(b, 1, Len(a)) = a

\* C24: after every step, the fullOutput of an execution continue() was not
\* called on is the texts of its line events, in the order of emission, each
\* followed by a newline; the cursor lies between 0 and the length of
\* fullOutput; and fullOutput has its former value as a prefix.
C24_FullOutputIsTheLinesEmitted ==
    [][\A i \in 1..Len(procs') :
          /\ procs'[i].isListening =>
                 procs'[i].fullOutput
                     = LinesText(EventsOfType(procs'[i], "line"))
          /\ 0 <= procs'[i].lastRetrievedIndex
          /\ procs'[i].lastRetrievedIndex <= Len(procs'[i].fullOutput)
          /\ i <= Len(procs) =>
                 IsPrefix(procs[i].fullOutput, procs'[i].fullOutput)]_vars

C24_Witness ==
    \E i \in 1..Len(procs) :
        /\ procs[i].isListening
        /\ Len(EventsOfType(procs[i], "line")) = 2
        /\ 0 < procs[i].lastRetrievedIndex
        /\ procs[i].lastRetrievedIndex < Len(procs[i].fullOutput)

\* The pool after disposeAll, a command having been run before.
Disposed == procs # <<>> /\ terminalIds = {} /\ DOMAIN processes = {}

\* C25: disposeAll empties terminalIds and processes and leaves the
\* terminals of the registry and the executions as they are; while the pool
\* is empty getTerminals returns nothing, getUnretrievedOutput the empty
\* string and isProcessHot false, for every id; and an execution in flight
\* when the pool is disposed of still settles.
C25_DisposeAllEmptiesThePool ==
    /\ [][ /\ DisposeAll =>
                 /\ terminalIds' = {}
                 /\ DOMAIN processes' = {}
                 /\ terminals' = terminals
                 /\ procs' = procs
           /\ Disposed =>
                 /\ \A busy \in BOOLEAN :
                        GetTerminals(busy) => ret'.value = {}
                 /\ \A id \in TerminalIdsOf(terminals) :
                        /\ GetUnretrievedOutput(id) => ret'.text = <<>>
                        /\ IsProcessHot(id) => ret'.value = FALSE ]_vars
    /\ \A i \in ProcIds :
           (Disposed /\ i <= Len(procs))
               ~> (i <= Len(procs) /\ Settled(procs[i]))

\* The pool is empty and answers false for a terminal whose execution is in
\* flight, hot and holds output not yet retrieved.
C25_Witness ==
    /\ Disposed
    /\ ret.op = "isProcessHot"
    /\ ret.value = FALSE
    /\ \E i \in 1..Len(procs) :
           /\ procs[i].term = ret.id
           /\ terminals[ret.id].busy
           /\ ~Settled(procs[i])
           /\ isHot(procs[i], now)
           /\ procs[i].lastRetrievedIndex < Len(procs[i].fullOutput)

====
